---- MODULE Spec2Model ----
(***************************************************************************)
(* A model of reliapy: the StateLimit evaluator (Model.py), the Variables  *)
(* wrapper over scipy.stats (Random.py) and the MonteCarlo class           *)
(* (MonteCarlo.py).  Every method is modelled as a call frame: a Begin     *)
(* step that runs the argument checks, one step per loop iteration, and a  *)
(* Return step.  Python values are records tagged with their type.         *)
(***************************************************************************)
EXTENDS Integers, Sequences, FiniteSets, TLC

\* ---------------------------------------------------------------- bounds
MaxLen == 3        \* longest samples list handed to run / drun
MaxSample == 2     \* sample points are the integers 0..MaxSample
MaxRV == 2         \* most distributions in one Variables object
MaxQLen == 2       \* longest list of probabilities q
MaxN == 2          \* largest nsamples, and largest argument of MCS
MaxMat == 3        \* most matrices handed to distance

VARIABLES
  sl,      \* the StateLimit object: a record of its attributes, or NoObject
  built,   \* the constructor arguments the live StateLimit was built with
  rv,      \* the Variables object, or NoObject
  mc,      \* the MonteCarlo object, or NoObject
  pc,      \* "idle" | the method whose loop is running | "done"
  op,      \* the method of the current (or last finished) call
  args,    \* its arguments
  i,       \* its loop index
  out,     \* the list its loop is building (g, dg, prob_out, samples_out, distance_list)
  loc,     \* its other locals: opt, q, numq of probability; ranks, pairs,
           \* distance_fun of distance
  calls,   \* the user callbacks / library routines invoked by the call, in order
  result   \* how the call ended: NoResult, Return(v) or Raise(e)

vars == <<sl, built, rv, mc, pc, op, args, i, out, loc, calls, result>>

\* ---------------------------------------------------------- Python values
None == [kind |-> "None"]
PyInt(n) == [kind |-> "int", val |-> n]
PyFloat(n) == [kind |-> "float", val |-> n]
PyList(s) == [kind |-> "list", items |-> s]
PyTuple(s) == [kind |-> "tuple", items |-> s]
Callable(n) == [kind |-> "callable", name |-> n]

NoObject == [kind |-> "unbound"]
NoArgs == [kind |-> "noargs"]
NoResult == [status |-> "none"]
Return(v) == [status |-> "return", value |-> v]
Raise(e) == [status |-> "raise", exc |-> e]

\* All sequences over S of length at most n.
SeqUpTo(S, n) == UNION {[1..k -> S] : k \in 0..n}

\* A method is entered from the caller only; "done" is the moment a call has
\* ended and its outcome is in the caller's hands.
Free == pc = "idle"

\* =====================================================================
\* Model.py : StateLimit
\* =====================================================================

\* The user's state limit functions and gradients: the callables a caller
\* can hand to the constructor.  g_inv divides by its sample.
StateLimitFuns == {"g_lin", "g_sq", "g_inv"}
GradFuns == {"dg_lin", "dg_sq"}

\* Calling a user callable on one sample: a value, or the exception it raises.
CallUser(name, s) ==
  CASE name = "g_lin" -> Return(3 - s)
    [] name = "g_sq" -> Return(s * s - 1)
    [] name = "g_inv" -> IF s = 0 THEN Raise("ZeroDivisionError") ELSE Return(4 - s)
    [] name = "dg_lin" -> Return(0 - 1)
    [] name = "dg_sq" -> Return(2 * s)

\* callable(state_limit)
IsCallable(v) == v.kind = "callable"

\* A check that lets any sequence type through.
IsList_anySequence(v) == v.kind \in {"list", "tuple"}

\* isinstance(samples, list)
IsList(v) == v.kind = "list"

\* hasattr(self, name): the attributes are the fields of the object's record.
HasAttr(obj, name) == name \in DOMAIN obj

\* A slip that builds the list back to front.
ListAppend_prepend(g, v) == <<v>> \o g

\* g.append(state_lim)
ListAppend(g, v) == Append(g, v)

\* The object __init__ leaves behind: state_limit_grad is accepted and dropped.
NewStateLimit(state_limit, state_limit_grad) ==
  [kind |-> "StateLimit", state_limit |-> state_limit, g |-> <<>>]

StateLimitArgs == {None, PyInt(1)} \cup {Callable(f) : f \in StateLimitFuns}
GradArgs == {None} \cup {Callable(f) : f \in GradFuns}
SampleLists == SeqUpTo(0..MaxSample, MaxLen)
SamplesArgs == {None} \cup {PyList(s) : s \in SampleLists}
                 \cup {PyTuple(s) : s \in SeqUpTo(0..MaxSample, 1)}

\* StateLimit(state_limit, state_limit_grad)
StateLimitInit(state_limit, state_limit_grad) ==
  /\ Free
  /\ op' = "StateLimit"
  /\ args' = [state_limit |-> state_limit, state_limit_grad |-> state_limit_grad]
  /\ i' = 0 /\ out' = <<>> /\ loc' = NoArgs /\ calls' = <<>>
  /\ pc' = "done"
  /\ IF IsCallable(state_limit)
       THEN /\ sl' = NewStateLimit(state_limit, state_limit_grad)
            /\ built' = [state_limit |-> state_limit,
                         state_limit_grad |-> state_limit_grad]
            /\ result' = Return(None)
       ELSE /\ result' = Raise("TypeError")
            /\ UNCHANGED <<sl, built>>
  /\ UNCHANGED <<rv, mc>>

\* The argument check shared by run and drun (lines 85-90, 124-129).
CheckSamples(method, samples) ==
  /\ Free
  /\ sl # NoObject
  /\ op' = method
  /\ args' = [samples |-> samples]
  /\ i' = 0 /\ out' = <<>> /\ loc' = NoArgs /\ calls' = <<>>
  /\ IF samples = None \/ ~IsList(samples)
       THEN pc' = "done" /\ result' = Raise("ValueError")
       ELSE pc' = method /\ result' = NoResult
  /\ UNCHANGED <<sl, built, rv, mc>>

\* A loop that walks the samples from the last to the first.
Item_backwards(samples, idx) == samples.items[Len(samples.items) - idx]

\* samples[i], with a zero-based i
Item(samples, idx) == samples.items[idx + 1]

\* One iteration of the loop of run / drun: look the callable up on self, call
\* it on samples[i], append.  An exception ends the call.
LoopStep(method, attr) ==
  /\ pc = method
  /\ i < Len(args.samples.items)
  /\ IF ~HasAttr(sl, attr)
       THEN /\ pc' = "done" /\ result' = Raise("AttributeError")
            /\ UNCHANGED <<i, out, calls>>
       ELSE LET fn == sl[attr].name
                s == Item(args.samples, i)
                r == CallUser(fn, s)
            IN /\ calls' = Append(calls, [fn |-> fn, arg |-> s])
               /\ IF r.status = "raise"
                    THEN pc' = "done" /\ result' = r /\ UNCHANGED <<i, out>>
                    ELSE /\ out' = ListAppend(out, r.value)
                         /\ i' = i + 1
                         /\ UNCHANGED <<pc, result>>
  /\ UNCHANGED <<sl, built, rv, mc, op, args, loc>>

\* return g / return dg
LoopReturn(method) ==
  /\ pc = method
  /\ i = Len(args.samples.items)
  /\ pc' = "done"
  /\ result' = Return(PyList(out))
  /\ UNCHANGED <<sl, built, rv, mc, op, args, i, out, loc, calls>>

RunBegin(samples) == CheckSamples("run", samples)
RunStep == LoopStep("run", "state_limit")
RunReturn == LoopReturn("run")

DrunBegin(samples) == CheckSamples("drun", samples)
DrunStep == LoopStep("drun", "state_limit_grad")
DrunReturn == LoopReturn("drun")

\* =====================================================================
\* Random.py : Variables
\* =====================================================================

\* The scipy.stats names the model draws distributions from: one continuous
\* family and one discrete family.
Continuous == {"norm"}
Discrete == {"binom"}
Families == Continuous \cup Discrete

\* isinstance(eval('stats.' + name), stats.rv_discrete)
IsDiscrete(name) == name \in Discrete

\* The attributes eval('stats.' + name + '.' + opt) finds: the density is pdf /
\* logpdf on a continuous family and pmf / logpmf on a discrete one; neither
\* kind has an attribute icdf.  "mean" stands for the attributes probability
\* has no branch for.
LibAttrs(name) ==
  {"cdf", "logcdf", "sf", "ppf", "isf", "stats", "rvs", "mean"}
    \cup (IF IsDiscrete(name) THEN {"pmf", "logpmf"} ELSE {"pdf", "logpdf"})

\* The value of a library routine is left symbolic: the routine, the
\* distribution it was looked up on, its argument and its keyword parameters.
LibCall(name, fn, arg, params) == [dist |-> name, fn |-> fn, arg |-> arg, kw |-> params]

\* mean_x, var_x, skew_x, kurt_x = fun_scipy(moments='mvsk', **params)
Moments(call) ==
  PyList(<<[of |-> call, part |-> "mean"], [of |-> call, part |-> "var"],
           [of |-> call, part |-> "skew"], [of |-> call, part |-> "kurt"]>>)

\* A string object: its text, and whether it is the interned object that a
\* literal of that text denotes.  A string built at run time is not.
Lit(text) == [text |-> text, interned |-> TRUE]

\* opt is 'literal': identity of the two string objects.
Is(s, text) == s.text = text /\ s.interned

\* opt in ('a', 'b', ...): identity or equality, so the text decides.
InTexts(s, texts) == s.text \in texts

XOpts == {"pdf", "pmf", "cdf", "logpdf", "logpmf", "logcdf", "sf"}
QOpts == {"ppf", "isf"}

\* isinstance(v, (int, float))
IsNumber(v) == v.kind \in {"int", "float"}

\* A check that takes any number for an integer.
IsInt_anyNumber(v) == v.kind \in {"int", "float"}

\* isinstance(v, int)
IsInt(v) == v.kind = "int"

\* v[idx] with a zero-based idx: subscripting None raises TypeError, an index
\* past the end IndexError.
Subscript(v, idx) ==
  IF v.kind # "list" THEN Raise("TypeError")
  ELSE IF idx >= Len(v.items) THEN Raise("IndexError")
  ELSE Return(v.items[idx + 1])

\* q[j] < 0 or q[j] > 1
OutOfUnit(n) == n.val < 0 \/ n.val > 1

\* The keyword dictionary of the k-th distribution.
ParamDict(k) == [kind |-> "dict", shape |-> k]

DistributionsArgs ==
  {None, PyTuple(<<"norm">>)} \cup {PyList(s) : s \in SeqUpTo(Families, MaxRV)}
ParametersArgs ==
  {None} \cup {PyList([k \in 1..n |-> ParamDict(k)]) : n \in 0..MaxRV}
XArgs == {None, PyInt(0)}
QVals == {PyInt(n) : n \in (0 - 1)..2}
QArgs == {None} \cup QVals \cup {PyList(s) : s \in SeqUpTo(QVals, MaxQLen)}
OptArgs ==
  [text : XOpts \cup QOpts \cup {"icdf", "stats", "mean"}, interned : BOOLEAN]
NSamplesArgs == {None, PyFloat(2)} \cup {PyInt(n) : n \in (0 - 1)..MaxN}

\* Variables(distributions)
VariablesInit(distributions) ==
  /\ Free
  /\ op' = "Variables"
  /\ args' = [distributions |-> distributions]
  /\ i' = 0 /\ out' = <<>> /\ calls' = <<>>
  /\ loc' = NoArgs
  /\ pc' = "done"
  /\ LET obj == IF IsList(distributions)
                  THEN [kind |-> "Variables", distributions |-> distributions.items,
                        nrv |-> Len(distributions.items)]
                  ELSE [kind |-> "Variables", distributions |-> <<"norm">>, nrv |-> 1]
     IN IF ~IsList(distributions) /\ distributions # None
          THEN result' = Raise("TypeError") /\ UNCHANGED rv
          ELSE IF obj.nrv # Len(obj.distributions)
            THEN result' = Raise("ValueError") /\ UNCHANGED rv
            ELSE result' = Return(None) /\ rv' = obj
  /\ UNCHANGED <<sl, built, mc>>

\* probability, lines 50-60: icdf is renamed, a number q is wrapped into a list.
ProbBegin(x, q, parameters, opt) ==
  /\ Free
  /\ rv # NoObject
  /\ op' = "probability"
  /\ args' = [x |-> x, q |-> q, parameters |-> parameters, opt |-> opt]
  /\ loc' = [opt |-> IF Is(opt, "icdf") THEN Lit("ppf") ELSE opt,
              numq |-> IF IsList(q) THEN Len(q.items) ELSE IF IsNumber(q) THEN 1 ELSE 0,
              q |-> IF ~IsList(q) /\ IsNumber(q) THEN PyList(<<q>>) ELSE q]
  /\ i' = 0 /\ out' = <<>> /\ calls' = <<>>
  /\ pc' = "probability" /\ result' = NoResult
  /\ UNCHANGED <<sl, built, rv, mc>>

\* Lines 65-77: the density / mass name is rewritten to suit the family.
Rewrite(name, opt) ==
  IF IsDiscrete(name)
    THEN IF Is(opt, "pdf") THEN Lit("pmf")
         ELSE IF Is(opt, "logpdf") THEN Lit("logpmf") ELSE opt
    ELSE IF Is(opt, "pmf") THEN Lit("pdf")
         ELSE IF Is(opt, "logpmf") THEN Lit("logpdf") ELSE opt

\* Lines 81-99 for one distribution, once fun_scipy is found: the exception
\* raised, or the library call made (at most one) and the entry appended to
\* prob_out for it.
Evaluate(name, opt, x, q, nq, params) ==
  LET xcall == LibCall(name, opt.text, x, params)
      qcall == LibCall(name, opt.text, q, params)
      scall == LibCall(name, opt.text, "mvsk", params)
      first ==
        IF InTexts(opt, XOpts)
          THEN IF x = None THEN Raise("ValueError")
               ELSE [status |-> "return", value |-> <<xcall>>, calls |-> <<xcall>>]
          ELSE [status |-> "return", value |-> <<>>, calls |-> <<>>]
      second ==
        IF InTexts(opt, QOpts)
          THEN IF q = None THEN Raise("ValueError")
               ELSE IF \E j \in 1..nq : OutOfUnit(q.items[j]) THEN Raise("ValueError")
               ELSE [status |-> "return", value |-> <<qcall>>, calls |-> <<qcall>>]
          ELSE IF Is(opt, "stats")
            THEN [status |-> "return", value |-> <<Moments(scall)>>, calls |-> <<scall>>]
            ELSE [status |-> "return", value |-> <<>>, calls |-> <<>>]
  IN IF first.status = "raise" THEN first
     ELSE IF second.status = "raise" THEN second
     ELSE [status |-> "return", value |-> first.value \o second.value,
           calls |-> first.calls \o second.calls]

\* One iteration of the loop of probability, lines 61-99.
ProbStep ==
  /\ pc = "probability"
  /\ i < rv.nrv
  /\ LET params == Subscript(args.parameters, i)
         name == rv.distributions[i + 1]
         opt == Rewrite(name, loc.opt)
         r == IF params.status = "raise" THEN params
              ELSE IF opt.text \notin LibAttrs(name) THEN Raise("AttributeError")
              ELSE Evaluate(name, opt, args.x, loc.q, loc.numq, params.value)
     IN /\ loc' = IF params.status = "raise" THEN loc ELSE [loc EXCEPT !.opt = opt]
        /\ IF r.status = "raise"
             THEN pc' = "done" /\ result' = r /\ UNCHANGED <<i, out, calls>>
             ELSE /\ out' = out \o r.value
                  /\ calls' = calls \o r.calls
                  /\ i' = i + 1
                  /\ UNCHANGED <<pc, result>>
  /\ UNCHANGED <<sl, built, rv, mc, op, args>>

\* return prob_out
ProbReturn ==
  /\ pc = "probability"
  /\ i = rv.nrv
  /\ pc' = "done"
  /\ result' = Return(PyList(out))
  /\ UNCHANGED <<sl, built, rv, mc, op, args, i, out, loc, calls>>

\* sampling, lines 106-112: the checks on nsamples.
SampBegin(nsamples, parameters) ==
  /\ Free
  /\ rv # NoObject
  /\ op' = "sampling"
  /\ args' = [nsamples |-> nsamples, parameters |-> parameters]
  /\ i' = 0 /\ out' = <<>> /\ calls' = <<>>
  /\ loc' = NoArgs
  /\ IF ~IsInt(nsamples)
       THEN pc' = "done" /\ result' = Raise("TypeError")
       ELSE IF nsamples.val < 1
         THEN pc' = "done" /\ result' = Raise("ValueError")
         ELSE pc' = "sampling" /\ result' = NoResult
  /\ UNCHANGED <<sl, built, rv, mc>>

\* A call that forgets nsamples and draws the default single sample.
Rvs_oneSample(name, nsamples, params) ==
  LibCall(name, "rvs", [size |-> PyInt(1), random_state |-> None], params)

\* fun_scipy(size=nsamples, random_state=None, **params)
Rvs(name, nsamples, params) ==
  LibCall(name, "rvs", [size |-> nsamples, random_state |-> None], params)

\* One iteration of the loop of sampling, lines 113-117.
SampStep ==
  /\ pc = "sampling"
  /\ i < rv.nrv
  /\ LET params == Subscript(args.parameters, i)
         name == rv.distributions[i + 1]
     IN IF params.status = "raise"
          THEN pc' = "done" /\ result' = params /\ UNCHANGED <<i, out, calls>>
          ELSE LET samples == Rvs(name, args.nsamples, params.value)
               IN /\ out' = ListAppend(out, samples)
                  /\ calls' = Append(calls, samples)
                  /\ i' = i + 1
                  /\ UNCHANGED <<pc, result>>
  /\ UNCHANGED <<sl, built, rv, mc, op, args, loc>>

\* return samples_out
SampReturn ==
  /\ pc = "sampling"
  /\ i = rv.nrv
  /\ pc' = "done"
  /\ result' = Return(PyList(out))
  /\ UNCHANGED <<sl, built, rv, mc, op, args, i, out, loc, calls>>

\* =====================================================================
\* MonteCarlo.py : MonteCarlo
\* =====================================================================

\* The matrices handed to distance: a name and what numpy.linalg.matrix_rank
\* finds for it.
Matrices == {[name |-> "A", rank |-> 1], [name |-> "B", rank |-> 2]}

\* np.linalg.matrix_rank(psi[i])
MatrixRank(m) == m.rank

\* np.asarray(psi[ii])[:, :rank0] : the first rank0 columns, left symbolic.
Columns(m, r) == [of |-> m.name, cols |-> r]

\* distance_fun(x0, x1), left symbolic.
Distance(fun, x0, x1) == [fn |-> fun, x0 |-> x0, x1 |-> x1]

\* list(itertools.combinations(range(n), 2)): the pairs (a, b) with a < b, in
\* lexicographic order.
RECURSIVE CombinationsFrom(_, _, _)
CombinationsFrom(a, b, n) ==
  IF a + 1 >= n THEN <<>>
  ELSE IF b >= n THEN CombinationsFrom(a + 1, a + 2, n)
  ELSE <<(<<a, b>>)>> \o CombinationsFrom(a, b + 1, n)

Combinations2(n) == CombinationsFrom(0, 1, n)

\* type(ranks) != list and type(ranks) != np.ndarray
IsListOrArray(v) == v.kind \in {"list", "ndarray"}

NoKeyword == [kind |-> "absent"]
DistanceObjects == {None, [kind |-> "str", text |-> "grassmann_distance"]}
DistanceScripts == {None, [kind |-> "str", text |-> "user_distance.py"]}
PsiArgs == SeqUpTo(Matrices, MaxMat)
RankArgs ==
  {NoKeyword, None, PyInt(2), PyTuple(<<1, 1>>), [kind |-> "ndarray", items |-> <<2, 1>>]}
    \cup {PyList(s) : s \in SeqUpTo(1..2, MaxMat)}

\* MonteCarlo(distance_object, distance_script): the distance part of
\* __init__, lines 94-106.  Whether the script exists and whether it imports
\* are facts of the file system.  The kernel, interpolation and Karcher parts
\* repeat it on attributes distance never reads.
MonteCarloInit(distance_object, distance_script, exists, imports) ==
  /\ Free
  /\ op' = "MonteCarlo"
  /\ args' = [distance_object |-> distance_object, distance_script |-> distance_script]
  /\ i' = 0 /\ out' = <<>> /\ loc' = NoArgs /\ calls' = <<>>
  /\ pc' = "done"
  /\ LET check == IF distance_script # None THEN exists ELSE FALSE
     IN IF check /\ ~imports
          THEN result' = Raise("ImportError") /\ UNCHANGED mc
          ELSE /\ result' = Return(None)
               /\ mc' = [kind |-> "MonteCarlo", distance_script |-> distance_script,
                         distance_object |-> distance_object,
                         user_distance_check |-> check]
  /\ UNCHANGED <<sl, built, rv>>

\* The ranks distance works with (lines 177-189): the keyword, or the computed
\* ranks when there is none.
RanksOf(psi, rank) ==
  IF rank = NoKeyword \/ rank = None
    THEN PyList([k \in 1..Len(psi) |-> MatrixRank(psi[k])])
    ELSE rank

\* Initial tests that count the matrices before they look at the type of rank.
InitialTests_countFirst(nargs, ranks) ==
  IF nargs < 2 THEN Raise("ValueError")
  ELSE IF ~IsListOrArray(ranks) THEN Raise("TypeError")
  ELSE IF Len(ranks.items) # nargs THEN Raise("ValueError")
  ELSE NoResult

\* The initial tests, lines 184-194: the exception raised, or NoResult.
InitialTests(nargs, ranks) ==
  IF ~IsListOrArray(ranks) THEN Raise("TypeError")
  ELSE IF nargs < 2 THEN Raise("ValueError")
  ELSE IF Len(ranks.items) # nargs THEN Raise("ValueError")
  ELSE NoResult

\* distance(psi, rank=...), lines 174-211: the checks, the pairs, and the lookup
\* of the distance function.  Whether the name resolves is a fact of the
\* environment (Grassmann comes from a star import).
DistBegin(psi, rank, resolves) ==
  /\ Free
  /\ mc # NoObject
  /\ op' = "distance"
  /\ args' = [psi |-> psi, rank |-> rank]
  /\ i' = 0 /\ out' = <<>> /\ calls' = <<>>
  /\ LET nargs == Len(psi)
         ranks == RanksOf(psi, rank)
         tests == InitialTests(nargs, ranks)
         fail == IF tests # NoResult THEN tests
                 ELSE IF mc.user_distance_check
                   THEN IF mc.distance_script = None THEN Raise("TypeError")
                        ELSE IF mc.distance_object = None THEN Raise("TypeError")
                        ELSE IF ~resolves THEN Raise("ImportError")
                        ELSE NoResult
                   ELSE IF mc.distance_object = None THEN Raise("TypeError")
                        ELSE IF ~resolves THEN Raise("NameError")
                        ELSE NoResult
     IN IF fail # NoResult
          THEN pc' = "done" /\ result' = fail /\ loc' = NoArgs
          ELSE /\ pc' = "distance" /\ result' = NoResult
               /\ loc' = [ranks |-> ranks.items, pairs |-> Combinations2(nargs),
                          distance_fun |-> mc.distance_object.text]
  /\ UNCHANGED <<sl, built, rv, mc>>

\* One iteration of the loop over the pairs, lines 214-226.
DistStep ==
  /\ pc = "distance"
  /\ i < Len(loc.pairs)
  /\ LET ii == loc.pairs[i + 1][1]
         jj == loc.pairs[i + 1][2]
         x0 == Columns(args.psi[ii + 1], loc.ranks[ii + 1])
         x1 == Columns(args.psi[jj + 1], loc.ranks[jj + 1])
         dist == Distance(loc.distance_fun, x0, x1)
     IN /\ out' = ListAppend(out, dist)
        /\ calls' = Append(calls, dist)
        /\ i' = i + 1
  /\ UNCHANGED <<sl, built, rv, mc, pc, op, args, loc, result>>

\* return distance_list
DistReturn ==
  /\ pc = "distance"
  /\ i = Len(loc.pairs)
  /\ pc' = "done"
  /\ result' = Return(PyList(out))
  /\ UNCHANGED <<sl, built, rv, mc, op, args, i, out, loc, calls>>

\* A stub that answers one more than it was given.
MCSValue_successor(n) == n + 1

\* What MCS answers: its input.
MCSValue(n) == n

\* MCS(n) of the second definition of the class.
MCS(n) ==
  /\ Free
  /\ op' = "MCS"
  /\ args' = [n |-> PyInt(n)]
  /\ i' = 0 /\ out' = <<>> /\ loc' = NoArgs /\ calls' = <<>>
  /\ pc' = "done"
  /\ result' = Return(PyInt(MCSValue(n)))
  /\ UNCHANGED <<sl, built, rv, mc>>

\* =====================================================================
\* Specifications
\* =====================================================================

\* The caller takes the outcome of the finished call; its frame is gone, the
\* objects stay.
Resume ==
  /\ pc = "done"
  /\ pc' = "idle" /\ op' = "none" /\ args' = NoArgs
  /\ i' = 0 /\ out' = <<>> /\ loc' = NoArgs
  /\ calls' = <<>> /\ result' = NoResult
  /\ UNCHANGED <<sl, built, rv, mc>>

Init ==
  /\ sl = NoObject /\ built = NoArgs /\ rv = NoObject /\ mc = NoObject
  /\ pc = "idle" /\ op = "none" /\ args = NoArgs
  /\ i = 0 /\ out = <<>> /\ loc = NoArgs
  /\ calls = <<>> /\ result = NoResult

Next ==
  \/ Free /\ \E f \in StateLimitArgs, d \in GradArgs : StateLimitInit(f, d)
  \/ Free /\ \E s \in SamplesArgs : RunBegin(s)
  \/ RunStep
  \/ RunReturn
  \/ Free /\ \E s \in SamplesArgs : DrunBegin(s)
  \/ DrunStep
  \/ DrunReturn
  \/ Resume

\* The StateLimit class.
Spec == Init /\ [][Next]_vars

NextVariables ==
  \/ Free /\ \E d \in DistributionsArgs : VariablesInit(d)
  \/ Free /\ \E x \in XArgs, q \in QArgs, p \in ParametersArgs, o \in OptArgs :
                ProbBegin(x, q, p, o)
  \/ ProbStep
  \/ ProbReturn
  \/ Free /\ \E n \in NSamplesArgs, p \in ParametersArgs : SampBegin(n, p)
  \/ SampStep
  \/ SampReturn
  \/ Resume

\* The Variables class.
SpecVariables == Init /\ [][NextVariables]_vars

NextMonteCarlo ==
  \/ Free /\ \E o \in DistanceObjects, s \in DistanceScripts, e \in BOOLEAN, m \in BOOLEAN :
                MonteCarloInit(o, s, e, m)
  \/ Free /\ \E psi \in PsiArgs, r \in RankArgs, e \in BOOLEAN : DistBegin(psi, r, e)
  \/ DistStep
  \/ DistReturn
  \/ Free /\ \E n \in (0 - 1)..MaxN : MCS(n)
  \/ Resume

\* The MonteCarlo class.
SpecMonteCarlo == Init /\ [][NextMonteCarlo]_vars

\* =====================================================================
\* Properties
\* =====================================================================

\* What evaluating fn over the samples of the finished call must give.
Mapped(fn) ==
  [k \in 1..Len(args.samples.items) |-> CallUser(fn, args.samples.items[k]).value]
Invoked(fn) ==
  [k \in 1..Len(args.samples.items) |-> [fn |-> fn, arg |-> args.samples.items[k]]]
TotalOn(fn) ==
  \A k \in 1..Len(args.samples.items) :
      CallUser(fn, args.samples.items[k]).status = "return"

\* C1: run(samples) on a list returns [f(samples[0]), ..., f(samples[n-1])], of the
\* length of samples (the empty list included), and has called f exactly once per
\* sample, in sample order.
C1_RunMapsSamples ==
  (op = "run" /\ pc = "done" /\ args.samples.kind = "list"
      /\ TotalOn(sl.state_limit.name))
    => /\ result = Return(PyList(Mapped(sl.state_limit.name)))
       /\ Len(result.value.items) = Len(args.samples.items)
       /\ calls = Invoked(sl.state_limit.name)

C1_Witness ==
  /\ op = "run" /\ pc = "done" /\ result.status = "return"
  /\ Len(args.samples.items) = 3
  /\ args.samples.items[1] # args.samples.items[2]
  /\ result.value.items[1] # result.value.items[2]

\* C2: on an object constructed with a callable state_limit_grad dg, drun(samples)
\* on a list returns [dg(samples[0]), ..., dg(samples[n-1])].
C2_DrunMapsSamples ==
  (op = "drun" /\ pc = "done" /\ args.samples.kind = "list"
      /\ built.state_limit_grad.kind = "callable")
    => result = Return(PyList(Mapped(built.state_limit_grad.name)))

\* C3: a state_limit that is not callable makes the constructor raise TypeError; a
\* samples argument that is None or not a list makes run and drun raise ValueError;
\* no callback is invoked and nothing is returned.
C3_BadInputRaises ==
  /\ (op = "StateLimit" /\ args.state_limit.kind # "callable")
        => pc = "done" /\ result = Raise("TypeError") /\ calls = <<>>
  /\ (op \in {"run", "drun"} /\ args.samples.kind # "list")
        => pc = "done" /\ result = Raise("ValueError") /\ calls = <<>>

C3_Witness ==
  /\ op = "drun" /\ pc = "done" /\ args.samples = PyTuple(<<1>>)
  /\ result = Raise("ValueError")

\* C4: after a successful run the attribute g of the object is the list run returned.
C4_AttributeGHoldsLastRun ==
  (op = "run" /\ pc = "done" /\ result.status = "return")
    => PyList(sl.g) = result.value

\* parameters has one entry per distribution of the object.
OnePerDistribution ==
  args.parameters.kind = "list" /\ Len(args.parameters.items) = rv.nrv

\* C5: sampling with an integer nsamples >= 1 and one parameters entry per
\* distribution returns nrv entries, entry k being rvs of distributions[k] called
\* with size = nsamples and the keywords parameters[k], in distribution order.
C5_SamplingForwardsToRvs ==
  (op = "sampling" /\ pc = "done" /\ args.nsamples.kind = "int"
      /\ args.nsamples.val >= 1 /\ OnePerDistribution)
    => /\ result.status = "return"
       /\ Len(result.value.items) = rv.nrv
       /\ \A k \in 1..rv.nrv :
            result.value.items[k] =
              [dist |-> rv.distributions[k], fn |-> "rvs",
               arg |-> [size |-> args.nsamples, random_state |-> None],
               kw |-> args.parameters.items[k]]
       /\ calls = result.value.items

C5_Witness ==
  /\ op = "sampling" /\ pc = "done" /\ result.status = "return"
  /\ rv.nrv = 2 /\ rv.distributions[1] # rv.distributions[2]
  /\ args.nsamples = PyInt(2)
  /\ Len(result.value.items) = 2

\* C6: sampling raises TypeError when nsamples is not an int and ValueError when it
\* is an int below 1, whatever parameters is; no library routine is called and
\* nothing is returned.
C6_SamplingRejectsNsamples ==
  /\ (op = "sampling" /\ args.nsamples.kind # "int")
        => pc = "done" /\ result = Raise("TypeError") /\ calls = <<>>
  /\ (op = "sampling" /\ args.nsamples.kind = "int" /\ args.nsamples.val < 1)
        => pc = "done" /\ result = Raise("ValueError") /\ calls = <<>>

C6_Witness ==
  /\ op = "sampling" /\ pc = "done" /\ rv.nrv = 2
  /\ args.nsamples = PyInt(0) /\ args.parameters = None
  /\ result = Raise("ValueError")

\* The routine the caller's opt stands for on one distribution: icdf is ppf, and
\* the density / mass name follows the family.
Selected(name, text) ==
  CASE text = "icdf" -> "ppf"
    [] text \in {"pdf", "pmf"} -> IF name \in Discrete THEN "pmf" ELSE "pdf"
    [] text \in {"logpdf", "logpmf"} -> IF name \in Discrete THEN "logpmf" ELSE "logpdf"
    [] OTHER -> text

\* q as the library receives it: a number is a list of one.
QGiven == IF args.q.kind \in {"int", "float"} THEN PyList(<<args.q>>) ELSE args.q

QInUnit ==
  /\ args.q # None
  /\ \A j \in 1..Len(QGiven.items) :
        QGiven.items[j].val >= 0 /\ QGiven.items[j].val <= 1

Documented == XOpts \cup QOpts \cup {"icdf", "stats"}

\* The entry probability owes for distribution k.
Owed(k) ==
  LET name == rv.distributions[k]
      fn == Selected(name, args.opt.text)
      kw == args.parameters.items[k]
  IN CASE fn \in XOpts -> [dist |-> name, fn |-> fn, arg |-> args.x, kw |-> kw]
       [] fn \in QOpts -> [dist |-> name, fn |-> fn, arg |-> QGiven, kw |-> kw]
       [] OTHER -> Moments([dist |-> name, fn |-> fn, arg |-> "mvsk", kw |-> kw])

ValidArguments ==
  /\ OnePerDistribution
  /\ args.opt.text \in XOpts => args.x # None
  /\ args.opt.text \in QOpts \cup {"icdf"} => QInUnit

\* C7: for every documented opt and valid x / q / parameters, probability returns
\* one entry per distribution, in distribution order, entry k being the routine
\* selected by name for distributions[k] called with parameters[k] (and x, q or
\* the four moments).  A number q counts as passed when it arrives as [q].
C7_ProbabilityForwards ==
  (op = "probability" /\ pc = "done" /\ args.opt.text \in Documented
      /\ ValidArguments)
    => result = Return(PyList([k \in 1..rv.nrv |-> Owed(k)]))

\* C7 for a caller that passes opt as a string literal.
C7_ProbabilityForwardsLiteral ==
  (op = "probability" /\ args.opt.interned) => C7_ProbabilityForwards

\* The argument of the call is one C10 lists as invalid.
InvalidArgument ==
  \/ args.opt.text \in XOpts /\ args.x = None
  \/ args.opt.text \in QOpts \cup {"icdf"} /\ args.q = None
  \/ args.opt.text \in QOpts \cup {"icdf"} /\ args.q # None /\ ~QInUnit

\* C10: on an object with at least one distribution, probability raises ValueError
\* when x is None for a density / cdf / sf option, when q is None for ppf / isf /
\* icdf, and when q holds a value below 0 or above 1 for these; the library is
\* never called and nothing is returned.  Stated for calls that pass a
\* parameters entry for every distribution, the reading kindest to the claim.
C10_ProbabilityRejects ==
  (op = "probability" /\ rv.nrv >= 1 /\ OnePerDistribution /\ InvalidArgument)
    => /\ calls = <<>>
       /\ result.status # "return"
       /\ pc = "done" => result = Raise("ValueError")

\* C10 for a caller that passes opt as a string literal.
C10_ProbabilityRejectsLiteral ==
  (op = "probability" /\ args.opt.interned) => C10_ProbabilityRejects

\* The distance between points a and b of the finished call (a, b counted from 0).
PairDistance(a, b) ==
  [fn |-> mc.distance_object.text,
   x0 |-> [of |-> args.psi[a + 1].name, cols |-> loc.ranks[a + 1]],
   x1 |-> [of |-> args.psi[b + 1].name, cols |-> loc.ranks[b + 1]]]

\* C8: for n >= 2 matrices, distance returns one entry for every ordered pair
\* (a, b) of points, stored row by row: {0,0},{0,1},...,{1,0},{1,1},...
C8_DistanceRowMajor ==
  (op = "distance" /\ pc = "done" /\ result.status = "return")
    => LET n == Len(args.psi)
       IN /\ Len(result.value.items) = n * n
          /\ \A a \in 0..(n - 1), b \in 0..(n - 1) :
                result.value.items[a * n + b + 1] = PairDistance(a, b)

\* What the code stores instead: one entry per pair a < b, in lexicographic order.
C8_DistanceUpperTriangle ==
  (op = "distance" /\ pc = "done" /\ result.status = "return")
    => LET n == Len(args.psi)
       IN /\ 2 * Len(result.value.items) = n * (n - 1)
          /\ \A a \in 0..(n - 1), b \in 0..(n - 1) :
                a < b => result.value.items[(a * (2 * n - a - 1)) \div 2 + (b - a)]
                            = PairDistance(a, b)

\* C9: MCS returns its input unchanged and leaves every object as it was.
C9_MCSReturnsInput ==
  [][(pc = "idle" /\ op' = "MCS")
       => /\ result' = Return(args'.n)
          /\ mc' = mc /\ sl' = sl /\ rv' = rv]_vars

C9_Witness ==
  /\ op = "MCS" /\ pc = "done" /\ args.n = PyInt(2)
  /\ result = Return(PyInt(2)) /\ mc # NoObject

\* The rank keyword of the call is given and is neither a list nor an ndarray.
RankGivenNotListOrArray ==
  args.rank.kind \notin {"absent", "list", "ndarray"}

\* The same, for a rank that is not None either.
RankOfWrongType ==
  args.rank.kind \notin {"absent", "None", "list", "ndarray"}

\* The rank keyword is a list or ndarray whose length is not the number of matrices.
RankCountDiffers ==
  args.rank.kind \in {"list", "ndarray"} /\ Len(args.rank.items) # Len(args.psi)

Rejected(exc) == pc = "done" /\ result = Raise(exc) /\ calls = <<>>

\* C11 as claimed: distance raises TypeError for every rank keyword that is given
\* and is neither a list nor an ndarray.
C11_RankKeywordRejected ==
  (op = "distance" /\ RankGivenNotListOrArray) => Rejected("TypeError")

\* C11 as amended: distance raises TypeError when a rank keyword other than None is
\* neither a list nor an ndarray, whatever the number of matrices; otherwise
\* ValueError when the list holds fewer than two matrices, and ValueError when the
\* number of ranks differs from the number of matrices; in each case no distance
\* function is invoked and nothing is returned.
C11_DistanceRejects ==
  /\ (op = "distance" /\ RankOfWrongType) => Rejected("TypeError")
  /\ (op = "distance" /\ ~RankOfWrongType /\ Len(args.psi) < 2)
        => Rejected("ValueError")
  /\ (op = "distance" /\ Len(args.psi) >= 2 /\ RankCountDiffers)
        => Rejected("ValueError")

C11_Witness ==
  /\ op = "distance" /\ pc = "done"
  /\ args.rank = PyInt(2) /\ Len(args.psi) = 1
  /\ result = Raise("TypeError")

DensityOpts == {"pdf", "pmf", "logpdf", "logpmf"}

\* C12: for a caller's opt in {pdf, pmf, logpdf, logpmf} and any mix of discrete and
\* continuous families, the routine invoked for distribution k is the mass variant
\* exactly when distributions[k] is discrete, with the caller's log / non-log choice;
\* no family is asked for the routine of the other kind, so every distribution is
\* served.
C12_NameFollowsFamily ==
  (op = "probability" /\ args.opt.text \in DensityOpts /\ args.x # None
      /\ OnePerDistribution)
    => /\ \A k \in 1..Len(calls) :
            /\ calls[k].dist = rv.distributions[k]
            /\ calls[k].fn = Selected(rv.distributions[k], args.opt.text)
       /\ result # Raise("AttributeError")
       /\ pc = "done" => Len(calls) = rv.nrv

\* C12 for a caller that passes opt as a string literal.
C12_NameFollowsFamilyLiteral ==
  (op = "probability" /\ args.opt.interned) => C12_NameFollowsFamily

\* C13: probability appends at most one entry per distribution, so the list never
\* has more than nrv entries; it returns exactly nrv entries when the effective opt
\* is one of pdf, pmf, cdf, logpdf, logpmf, logcdf, sf, ppf, isf, stats, and an
\* empty list, without raising, for any other opt that is a library attribute.
C13_ResultLength ==
  /\ (op = "probability" /\ pc = "probability") => Len(out) <= i
  /\ (op = "probability" /\ pc = "done" /\ result.status = "return")
        => /\ Len(result.value.items) <= rv.nrv
           /\ loc.opt.text \in XOpts \cup QOpts \cup {"stats"}
                 => Len(result.value.items) = rv.nrv
  /\ (op = "probability" /\ pc = "done" /\ OnePerDistribution
         /\ loc.opt.text \notin XOpts \cup QOpts \cup {"stats"}
         /\ \A k \in 1..rv.nrv : loc.opt.text \in LibAttrs(rv.distributions[k]))
        => result = Return(PyList(<<>>))

\* C13 for a caller that passes opt as a string literal.
C13_ResultLengthLiteral ==
  (op = "probability" /\ args.opt.interned) => C13_ResultLength

\* C14: run calls the callback on the samples in increasing index order, one at a
\* time; when the callback raises on sample j the exception reaches the caller,
\* no later sample is evaluated, no list is returned, and the object keeps the
\* state_limit and g it was constructed with, so a later run starts from a
\* fresh object's state.
C14_RunOrderAndFailure ==
  op = "run" =>
    LET f == sl.state_limit.name
        n == Len(calls)
    IN /\ sl = [kind |-> "StateLimit", state_limit |-> built.state_limit, g |-> <<>>]
       /\ \A k \in 1..n : calls[k] = [fn |-> f, arg |-> args.samples.items[k]]
       /\ pc = "run" => n = i /\ Len(out) = i
       /\ (pc = "done" /\ result.status = "raise" /\ args.samples.kind = "list")
            => /\ n >= 1 /\ n <= Len(args.samples.items)
               /\ result = CallUser(f, args.samples.items[n])
               /\ \A k \in 1..(n - 1) :
                     CallUser(f, args.samples.items[k]).status = "return"

C14_Witness ==
  /\ op = "run" /\ pc = "done" /\ result = Raise("ZeroDivisionError")
  /\ Len(args.samples.items) = 3 /\ Len(calls) = 2

====
